---- MODULE Spec2Model ----
(***************************************************************************)
(* CitySetu backend.  Two servers of the repository are modelled:          *)
(*   - the blob-store server (src/workers.json): every collection is one   *)
(*     JSON document in a GitHub repository, read with its sha and written *)
(*     back conditioned on that sha;                                       *)
(*   - the relational server (src/index.js): professionals, their service  *)
(*     links and the admin approval.                                       *)
(* Every HTTP request is a process p \in Reqs.  A handler is cut at its     *)
(* awaits on the remote store: one action per segment, the segment being   *)
(* the remote call together with the synchronous code that follows it.     *)
(* The chat booking widget that src/index.js carries after the server is   *)
(* modelled as a machine of its own (ChatSpec): the widget object, the user *)
(* and the callbacks it has handed to setTimeout.                          *)
(***************************************************************************)
EXTENDS Naturals, Sequences, FiniteSets, TLC

VARIABLES
    store,          \* blob store: path -> [exists, records]
    now,            \* latest instant known to have passed (clock of new Date())
    professionals,  \* relational table professionals: id -> [name, phone, approved]
    profServices,   \* relational table professional_services: set of <<professional_id, service_id>>
    req,            \* the requests: p -> kind, inputs, position, locals, response
    chat            \* the chat widget: its fields, the DOM it shows, its pending callbacks

serverVars == <<store, now, professionals, profServices, req>>

vars == <<store, now, professionals, profServices, req, chat>>

-----------------------------------------------------------------------------
(* Bounds *)

NumReq == 2            \* number of requests of one run
MaxOpens == 1          \* calls of openWithService in one run of the widget
MaxBookings == 1       \* bookings confirmed in one run of the widget
MaxClock == 2          \* instants 0..MaxClock
TicksPerDay == 2       \* instants of one calendar day

Reqs == 1..NumReq
Instants == 0..MaxClock

-----------------------------------------------------------------------------
(* Strings that the code inspects character by character are sequences of  *)
(* one-character strings.                                                  *)

CHAT == <<"C", "H", "A", "T">>
SIGNUP == <<"S", "I", "G", "N", "U", "P">>
WORKER == <<"W", "O", "R", "K", "E", "R">>

alphabet ==
    {"0", "1", "2", "3", "4", "5", "6", "7", "8", "9",
     "A", "B", "C", "D", "E", "F", "G", "H", "I", "J", "K", "L", "M",
     "N", "O", "P", "Q", "R", "S", "T", "U", "V", "W", "X", "Y", "Z"}

\* Outputs of nanoid() the model draws from (a subset of alphabet^6).
NanoidOutputs ==
    {<<"7", "K", "2", "P", "Q", "Z">>, <<"B", "2", "4", "5", "A", "1">>}

LowerToUpper ==
    [c \in {"a", "b", "c", "d", "e", "f", "g", "h", "i", "j", "k", "l", "m",
            "n", "o", "p", "q", "r", "s", "t", "u", "v", "w", "x", "y", "z"} |->
        CASE c = "a" -> "A" [] c = "b" -> "B" [] c = "c" -> "C" [] c = "d" -> "D"
          [] c = "e" -> "E" [] c = "f" -> "F" [] c = "g" -> "G" [] c = "h" -> "H"
          [] c = "i" -> "I" [] c = "j" -> "J" [] c = "k" -> "K" [] c = "l" -> "L"
          [] c = "m" -> "M" [] c = "n" -> "N" [] c = "o" -> "O" [] c = "p" -> "P"
          [] c = "q" -> "Q" [] c = "r" -> "R" [] c = "s" -> "S" [] c = "t" -> "T"
          [] c = "u" -> "U" [] c = "v" -> "V" [] c = "w" -> "W" [] c = "x" -> "X"
          [] c = "y" -> "Y" [] c = "z" -> "Z"]

toUpperCase(s) ==
    [i \in 1..Len(s) |-> IF s[i] \in DOMAIN LowerToUpper THEN LowerToUpper[s[i]] ELSE s[i]]

startsWith(s, prefix) ==
    /\ Len(s) >= Len(prefix)
    /\ SubSeq(s, 1, Len(prefix)) = prefix

\* `${prefix.toUpperCase()}-${nanoid()}`, code being the value nanoid() returned.
generateId(prefix, code) == toUpperCase(prefix) \o <<"-">> \o code

\* The pattern <PREFIX>-[A-Z0-9]{6}.
MatchesIdPattern(id, prefix) ==
    /\ Len(id) = Len(prefix) + 7
    /\ SubSeq(id, 1, Len(prefix) + 1) = prefix \o <<"-">>
    /\ \A i \in (Len(prefix) + 2)..Len(id) : id[i] \in alphabet

-----------------------------------------------------------------------------
(* JSON objects are functions from field names to values. *)

EmptyObject == [k \in {} |-> ""]

Has(obj, k) == k \in DOMAIN obj

\* { ...a, ...b }: the fields of b win.
Merge(a, b) ==
    [k \in (DOMAIN a) \cup (DOMAIN b) |-> IF k \in DOMAIN b THEN b[k] ELSE a[k]]

\* JavaScript truthiness of a field that holds a string or is undefined.
Truthy(obj, k) == Has(obj, k) /\ obj[k] # ""

addTimestamp(data, t) == Merge(data, [timestamp |-> t])

\* new Date().toISOString().split('T')[0]
DateOf(t) == t \div TicksPerDay

-----------------------------------------------------------------------------
(* The blob store (GitHub contents API). *)

\* Faulty variant: one document for all the collections.
DataPath_OneFile(name) == <<"data", "chats">>

DataPath(name) == <<"data", name>>
BackupPath(t) == <<"backup", "chats-", ToString(DateOf(t))>>

Collections == {"chats", "calls", "workers", "signups"}
Paths == {DataPath(c) : c \in Collections} \cup {BackupPath(t) : t \in Instants}

NoDoc == [exists |-> FALSE, records |-> <<>>]
Doc(records) == [exists |-> TRUE, records |-> records]

\* The sha of a document is the hash of its content: equal exactly for equal
\* contents.  Null is the sha of no document.
Null == <<>>
ShaOf(doc) == IF doc.exists THEN <<doc.records>> ELSE Null


\* axios.get on the contents API: 200 with the document, 404 when the path
\* holds no document, "error" for every other failure (network, auth, rate limit).
GetResponses(path) ==
    {IF store[path].exists THEN "200" ELSE "404", "error"}

\* Faulty variant: the 404 of a missing document is thrown like every other failure.
getFileFromRepo_Throw404(filePath, response) ==
    IF response = "200"
    THEN [threw |-> FALSE, data |-> store[filePath].records, sha |-> ShaOf(store[filePath])]
    ELSE [threw |-> TRUE, data |-> <<>>, sha |-> Null]

\* Faulty variant: every failure of the read is taken for a missing document.
getFileFromRepo_SwallowAll(filePath, response) ==
    IF response = "200"
    THEN [threw |-> FALSE, data |-> store[filePath].records, sha |-> ShaOf(store[filePath])]
    ELSE [threw |-> FALSE, data |-> <<>>, sha |-> Null]

getFileFromRepo(filePath, response) ==
    IF response = "200"
    THEN [threw |-> FALSE, data |-> store[filePath].records, sha |-> ShaOf(store[filePath])]
    ELSE IF response = "404"
    THEN [threw |-> FALSE, data |-> <<>>, sha |-> Null]
    ELSE [threw |-> TRUE, data |-> <<>>, sha |-> Null]

\* Faulty variant: a write without a sha replaces the document the store holds.
StorePut_NullOverwrites(path, payload, reachable) ==
    IF ~reachable
    THEN [status |-> "error", store |-> store]
    ELSE IF payload.sha = Null \/ payload.sha = ShaOf(store[path])
    THEN [status |-> "200", store |-> [store EXCEPT ![path] = Doc(payload.content)]]
    ELSE [status |-> "409", store |-> store]

\* The store's answer to a PUT: it applies the content when the sha of the
\* payload is the sha of the document it holds (Null for no document), answers
\* 409 otherwise, and changes nothing when it cannot be reached.
StorePut(path, payload, reachable) ==
    IF ~reachable
    THEN [status |-> "error", store |-> store]
    ELSE IF payload.sha = ShaOf(store[path])
    THEN [status |-> "200", store |-> [store EXCEPT ![path] = Doc(payload.content)]]
    ELSE [status |-> "409", store |-> store]

\* Faulty variant: the write is sent with the sha the document has now, not the sha
\* that was read with the data.
updateFileInRepo_LatestSha(filePath, newData, sha, reachable) ==
    LET r == StorePut(filePath, [content |-> newData, sha |-> ShaOf(store[filePath])],
                      reachable)
    IN  [threw |-> r.status # "200", status |-> r.status, store |-> r.store]

\* Faulty variant: the rejection of the write is not thrown.
updateFileInRepo_NoThrow(filePath, newData, sha, reachable) ==
    LET r == StorePut(filePath, [content |-> newData, sha |-> sha], reachable)
    IN  [threw |-> FALSE, status |-> r.status, store |-> r.store]

updateFileInRepo(filePath, newData, sha, reachable) ==
    LET r == StorePut(filePath, [content |-> newData, sha |-> sha], reachable)
    IN  [threw |-> r.status # "200", status |-> r.status, store |-> r.store]

-----------------------------------------------------------------------------
(* Authorization *)

ADMIN_TOKEN == "secret"

\* The Authorization header, split at the spaces; <<>> is no header.
Headers ==
    {<<>>, <<"Bearer", "secret">>, <<"Bearer", "wrong">>, <<"Bearer", "", "secret">>}

\* req.headers.authorization?.split(' ')[1]; "" stands for undefined too (both falsy).
TokenOf(hdr) == IF Len(hdr) >= 2 THEN hdr[2] ELSE ""

\* Faulty variant: any token passes.
protect_PresenceOnly(hdr) ==
    IF TokenOf(hdr) = "" THEN 401 ELSE 0

\* protect (blob-store server): 0 is next().
protect(hdr) ==
    IF TokenOf(hdr) = "" \/ TokenOf(hdr) # ADMIN_TOKEN THEN 401 ELSE 0

\* authMiddleware (relational server): 0 is next().
authMiddleware(hdr) ==
    IF TokenOf(hdr) = "" THEN 401
    ELSE IF TokenOf(hdr) # ADMIN_TOKEN THEN 403
    ELSE 0

-----------------------------------------------------------------------------
(* Requests *)

AppendKinds == {"chats", "calls", "signups", "workers"}

\* A request that has not arrived.  data, sha, newData, idx and stamp are the
\* handler's locals; they are dropped with the handler's frame when it responds,
\* except sha, which the properties read.  reads, writes, got and committed
\* are history: the documents and tables the request has sent a read or a
\* write to, the store's answer to its last read, and whether a write of it
\* was applied.
IdleReq ==
    [kind |-> "none", pc |-> "idle", hdr |-> <<>>, body |-> EmptyObject, id |-> <<>>,
     path |-> <<>>, data |-> <<>>, sha |-> Null, newData |-> <<>>, idx |-> 0,
     stamp |-> 0, threwAt |-> "none", status |-> 0, resp |-> EmptyObject,
     reads |-> {}, writes |-> {}, got |-> "none", committed |-> FALSE]

\* Requests are numbered in their order of arrival.
Arrives(p) ==
    /\ req[p].pc = "idle"
    /\ \A q \in Reqs : q < p => req[q].pc # "idle"

\* Request bodies of the append routes.
Bodies ==
    {[customerName |-> "Asha", service |-> "AC Repair"],
     [customerName |-> "Asha", id |-> <<"x">>, timestamp |-> 7, status |-> "Done",
      workerAssigned |-> "Ravi", service |-> "", available |-> FALSE]}

\* Faulty variant: the signup and worker routes generate their ids with the chat prefix.
NewRecord_ChatPrefix(kind, code, body, t) ==
    CASE kind = "chats" ->
           Merge(Merge([id |-> generateId(CHAT, code)], addTimestamp(body, t)),
                 [status |-> "Pending", workerAssigned |-> ""])
      [] kind = "calls" -> addTimestamp(body, t)
      [] kind = "signups" ->
           Merge(Merge([id |-> generateId(CHAT, code)], addTimestamp(body, t)),
                 [status |-> "Pending Review"])
      [] kind = "workers" ->
           Merge([id |-> generateId(CHAT, code)], addTimestamp(body, t))

\* Faulty variant: the body is spread last, over the fields the route sets.
NewRecord_BodyLast(kind, code, body, t) ==
    CASE kind = "chats" ->
           Merge(Merge([id |-> generateId(CHAT, code)],
                       [timestamp |-> t, status |-> "Pending", workerAssigned |-> ""]),
                 body)
      [] kind = "calls" -> Merge([timestamp |-> t], body)
      [] kind = "signups" ->
           Merge(Merge([id |-> generateId(SIGNUP, code)],
                       [timestamp |-> t, status |-> "Pending Review"]),
                 body)
      [] kind = "workers" ->
           Merge(Merge([id |-> generateId(WORKER, code)], [timestamp |-> t]), body)

\* The record each append route builds: code is the value of nanoid(), t the
\* instant of new Date().
NewRecord(kind, code, body, t) ==
    CASE kind = "chats" ->
           Merge(Merge([id |-> generateId(CHAT, code)], addTimestamp(body, t)),
                 [status |-> "Pending", workerAssigned |-> ""])
      [] kind = "calls" -> addTimestamp(body, t)
      [] kind = "signups" ->
           Merge(Merge([id |-> generateId(SIGNUP, code)], addTimestamp(body, t)),
                 [status |-> "Pending Review"])
      [] kind = "workers" ->
           Merge([id |-> generateId(WORKER, code)], addTimestamp(body, t))

\* Faulty variant: unshift for push.
push_Front(data, rec) == <<rec>> \o data

\* data.push(rec)
push(data, rec) == Append(data, rec)

Max(a, b) == IF a >= b THEN a ELSE b

\* res.status(st).json(body): the handler is over.
Respond(r, st, body) ==
    [r EXCEPT !.pc = "done", !.status = st, !.resp = body,
              !.data = <<>>, !.newData = <<>>, !.idx = 0, !.stamp = 0]

\* The catch block of a handler: 500 with error.message.
Catch(r, at, message) ==
    Respond([r EXCEPT !.threwAt = at], 500, [message |-> "Error", error |-> message])

\* A request rejected by the middleware.
Reject(p, kind, hdr, st) ==
    /\ Arrives(p)
    /\ req' = [req EXCEPT ![p] =
                 Respond([@ EXCEPT !.kind = kind, !.hdr = hdr], st,
                         [message |-> "Unauthorized"])]
    /\ UNCHANGED <<store, now, professionals, profServices>>

\* First segment of an append handler: the read and the code up to the write.
AppendBegin(p, kind, hdr) ==
    /\ Arrives(p)
    /\ \E body \in Bodies, response \in GetResponses(DataPath(kind)),
          code \in NanoidOutputs, t \in now..MaxClock :
         LET r == getFileFromRepo(DataPath(kind), response)
             rec == NewRecord(kind, code, body, t)
             arrived == [req[p] EXCEPT !.kind = kind, !.hdr = hdr, !.body = body,
                                       !.path = DataPath(kind),
                                       !.reads = {DataPath(kind)}, !.got = response]
         IN  req' = [req EXCEPT ![p] =
                       IF r.threw
                       THEN Catch(arrived, "read", response)
                       ELSE [arrived EXCEPT !.data = r.data, !.sha = r.sha,
                                            !.newData = push(r.data, rec),
                                            !.idx = Len(r.data) + 1, !.stamp = t,
                                            !.pc = "put"]]
    /\ UNCHANGED <<store, now, professionals, profServices>>

\* Faulty variant: a write that failed is sent again.
WriteAndRespond_Retry(p, st, okBody) ==
    \E reachable \in BOOLEAN :
        LET w == updateFileInRepo(req[p].path, req[p].newData, req[p].sha, reachable)
            sent == [req[p] EXCEPT !.writes = @ \cup {req[p].path},
                                   !.committed = ~w.threw]
        IN  /\ store' = w.store
            /\ req' = [req EXCEPT ![p] =
                         IF w.threw THEN sent ELSE Respond(sent, st, okBody)]
            /\ now' = Max(now, req[p].stamp)
            /\ UNCHANGED <<professionals, profServices>>

\* The write of a handler and its response: st and okBody on success.
WriteAndRespond(p, st, okBody) ==
    \E reachable \in BOOLEAN :
        LET w == updateFileInRepo(req[p].path, req[p].newData, req[p].sha, reachable)
            sent == [req[p] EXCEPT !.writes = @ \cup {req[p].path},
                                   !.committed = ~w.threw]
        IN  /\ store' = w.store
            /\ req' = [req EXCEPT ![p] =
                         IF w.threw
                         THEN Catch(sent, "write", w.status)
                         ELSE Respond(sent, st, okBody)]
            /\ now' = Max(now, req[p].stamp)
            /\ UNCHANGED <<professionals, profServices>>

\* Second segment of an append handler.
AppendWrite(p) ==
    /\ req[p].pc = "put"
    /\ req[p].kind \in AppendKinds
    /\ WriteAndRespond(p, 201, req[p].newData[req[p].idx])

PostChats(p) == AppendBegin(p, "chats", <<>>)

PostCalls(p) == AppendBegin(p, "calls", <<>>)

PostSignups(p) == AppendBegin(p, "signups", <<>>)

PostWorkers(p) ==
    \E hdr \in Headers :
        IF protect(hdr) # 0
        THEN Reject(p, "workers", hdr, protect(hdr))
        ELSE AppendBegin(p, "workers", hdr)

\* PUT /api/update-status/:id
UpdateIds ==
    {generateId(CHAT, code) : code \in NanoidOutputs}
        \cup {generateId(SIGNUP, code) : code \in NanoidOutputs}
        \cup {generateId(WORKER, code) : code \in {c \in NanoidOutputs : c[1] = "7"}}

Patches ==
    {EmptyObject,
     [status |-> "Confirmed", workerAssigned |-> "Ravi"],
     [status |-> ""],
     [workerAssigned |-> "Ravi"]}

\* Faulty variant: item.id = id for item.id === id, true of the first item.
findIndex_Assign(data, id) == IF data = <<>> THEN 0 ELSE 1

\* data.findIndex(item => item.id === id), 0 for -1.
findIndex(data, id) ==
    LET hits == {i \in 1..Len(data) : Has(data[i], "id") /\ data[i].id = id}
    IN  IF hits = {} THEN 0 ELSE CHOOSE i \in hits : \A j \in hits : i <= j

\* Faulty variant: the item is replaced by the patch, keeping only its id.
applyPatch_Replace(item, patch) == Merge([id |-> item.id], patch)

\* if (status) item.status = status; if (workerAssigned) item.workerAssigned = workerAssigned
applyPatch(item, patch) ==
    LET a == IF Truthy(patch, "status") THEN Merge(item, [status |-> patch.status]) ELSE item
    IN  IF Truthy(patch, "workerAssigned")
        THEN Merge(a, [workerAssigned |-> patch.workerAssigned])
        ELSE a

\* Faulty variant: no 400 for the other prefixes, which fall to the signups document.
filePathOf_NoDefault(id) ==
    IF startsWith(id, CHAT \o <<"-">>) THEN DataPath("chats")
    ELSE DataPath("signups")

\* The document the id of an update-status request selects, <<>> for none.
filePathOf(id) ==
    IF startsWith(id, CHAT \o <<"-">>) THEN DataPath("chats")
    ELSE IF startsWith(id, SIGNUP \o <<"-">>) THEN DataPath("signups")
    ELSE <<>>

UpdateStatus(p) ==
    \E hdr \in Headers :
        IF protect(hdr) # 0
        THEN Reject(p, "update", hdr, protect(hdr))
        ELSE
          /\ Arrives(p)
          /\ \E id \in UpdateIds, patch \in Patches :
               LET arrived == [req[p] EXCEPT !.kind = "update", !.hdr = hdr, !.id = id,
                                             !.body = patch, !.path = filePathOf(id)]
               IN  IF filePathOf(id) = <<>>
                   THEN req' = [req EXCEPT ![p] =
                                  Respond(arrived, 400, [message |-> "Invalid ID prefix"])]
                   ELSE \E response \in GetResponses(filePathOf(id)) :
                          LET r == getFileFromRepo(filePathOf(id), response)
                              itemIndex == findIndex(r.data, id)
                              reading == [arrived EXCEPT !.reads = {filePathOf(id)},
                                                         !.got = response]
                          IN  req' = [req EXCEPT ![p] =
                                IF r.threw THEN Catch(reading, "read", response)
                                ELSE IF itemIndex = 0
                                THEN Respond([reading EXCEPT !.sha = r.sha], 404,
                                             [message |-> "Item not found"])
                                ELSE [reading EXCEPT
                                        !.data = r.data, !.sha = r.sha,
                                        !.newData = [r.data EXCEPT ![itemIndex] =
                                                        applyPatch(@, patch)],
                                        !.idx = itemIndex, !.stamp = now,
                                        !.pc = "put"]]
          /\ UNCHANGED <<store, now, professionals, profServices>>

UpdateWrite(p) ==
    /\ req[p].pc = "put"
    /\ req[p].kind = "update"
    /\ WriteAndRespond(p, 200, req[p].newData[req[p].idx])

\* GET /api/backup
Backup(p) ==
    \E hdr \in Headers :
        IF protect(hdr) # 0
        THEN Reject(p, "backup", hdr, protect(hdr))
        ELSE
          /\ Arrives(p)
          /\ \E response \in GetResponses(DataPath("chats")), t \in now..MaxClock :
               LET r == getFileFromRepo(DataPath("chats"), response)
                   arrived == [req[p] EXCEPT !.kind = "backup", !.hdr = hdr,
                                             !.path = BackupPath(t),
                                             !.reads = {DataPath("chats")},
                                             !.got = response]
               IN  req' = [req EXCEPT ![p] =
                             IF r.threw THEN Catch(arrived, "read", response)
                             ELSE [arrived EXCEPT !.data = r.data, !.newData = r.data,
                                                  !.sha = Null, !.stamp = t, !.pc = "put"]]
          /\ UNCHANGED <<store, now, professionals, profServices>>

BackupWrite(p) ==
    /\ req[p].pc = "put"
    /\ req[p].kind = "backup"
    /\ WriteAndRespond(p, 200, [message |-> "Backup created", path |-> req[p].path])

\* GET /api/workers
groupByService(data) ==
    LET serviceOf(w) == IF Truthy(w, "service") THEN w.service ELSE "Uncategorized"
        services == {serviceOf(data[i]) : i \in 1..Len(data)}
    IN  [sv \in services |-> SelectSeq(data, LAMBDA w : serviceOf(w) = sv)]

GetWorkers(p) ==
    /\ Arrives(p)
    /\ \E response \in GetResponses(DataPath("workers")) :
         LET r == getFileFromRepo(DataPath("workers"), response)
             arrived == [req[p] EXCEPT !.kind = "getWorkers", !.path = DataPath("workers"),
                                       !.reads = {DataPath("workers")}, !.got = response]
         IN  req' = [req EXCEPT ![p] =
                       IF r.threw THEN Catch(arrived, "read", response)
                       ELSE Respond([arrived EXCEPT !.sha = r.sha], 200,
                                    groupByService(r.data))]
    /\ UNCHANGED <<store, now, professionals, profServices>>

\* GET /api/admin/data and GET /api/stats: four reads, one after the other.
FanOut == <<"chats", "calls", "workers", "signups">>

\* Faulty variant: chats and calls change places in the payload.
fanOutPayload_Swapped(kind, reads) ==
    IF kind = "adminData"
    THEN [chats |-> reads[2], calls |-> reads[1], workers |-> reads[3], signups |-> reads[4]]
    ELSE [chats |-> Len(reads[2]), calls |-> Len(reads[1]),
          workers |-> Len(reads[3]), signups |-> Len(reads[4])]

fanOutPayload(kind, reads) ==
    IF kind = "adminData"
    THEN [chats |-> reads[1], calls |-> reads[2], workers |-> reads[3], signups |-> reads[4]]
    ELSE [chats |-> Len(reads[1]), calls |-> Len(reads[2]),
          workers |-> Len(reads[3]), signups |-> Len(reads[4])]

\* The next read of a fan-out handler r that has done Len(r.data) reads.
fanOutRead(r, response) ==
    LET path == DataPath(FanOut[Len(r.data) + 1])
        got == getFileFromRepo(path, response)
        reading == [r EXCEPT !.reads = @ \cup {path}, !.got = response]
        results == Append(r.data, got.data)
    IN  IF got.threw THEN Catch(reading, "read", response)
        ELSE IF Len(results) = Len(FanOut)
        THEN Respond(reading, 200, fanOutPayload(r.kind, results))
        ELSE [reading EXCEPT !.data = results, !.pc = "fanout"]

FanOutBegin(p, kind) ==
    \E hdr \in Headers :
        IF protect(hdr) # 0
        THEN Reject(p, kind, hdr, protect(hdr))
        ELSE
          /\ Arrives(p)
          /\ \E response \in GetResponses(DataPath(FanOut[1])) :
               req' = [req EXCEPT ![p] =
                         fanOutRead([@ EXCEPT !.kind = kind, !.hdr = hdr], response)]
          /\ UNCHANGED <<store, now, professionals, profServices>>

AdminData(p) == FanOutBegin(p, "adminData")

Stats(p) == FanOutBegin(p, "stats")

FanOutNext(p) ==
    /\ req[p].pc = "fanout"
    /\ \E response \in GetResponses(DataPath(FanOut[Len(req[p].data) + 1])) :
         req' = [req EXCEPT ![p] = fanOutRead(@, response)]
    /\ UNCHANGED <<store, now, professionals, profServices>>

-----------------------------------------------------------------------------
(* The relational server (src/index.js) *)

\* Values of randomUUID() the model draws from.
Uuids == {"u1", "u2"}

SignupPayloads ==
    {[name |-> "Ravi", phone |-> "9990001111", serviceIds |-> <<1>>],
     [name |-> "Ravi", phone |-> "9990001111", serviceIds |-> <<1, 2>>],
     [name |-> "", phone |-> "9990001111", serviceIds |-> <<1>>],
     [name |-> "Ravi", phone |-> "9990001111", serviceIds |-> <<>>]}

Table(name) == <<"db", name>>

\* One row, keyed by its id, added to a table.
WithRow(table, id, row) == Merge(table, [k \in {id} |-> row])

\* The default of the column professionals.approved.  The schema is not part
\* of the sources; the pending list (approved = false) and the answer "Waiting
\* for admin approval" of the route that relies on the default say it is false.
ApprovedDefault == FALSE

\* The two variants of the signup route: the first one inserts approved =
\* false, the second one leaves approved to the default of the column.
SignupVariants == {1, 2}

insertedApproved(variant) == IF variant = 1 THEN FALSE ELSE ApprovedDefault

\* POST /api/professionals/signup: validation and the INSERT of the professional.
\* The INSERT fails when the database cannot be reached or the id is taken.
ProSignup(p) ==
    /\ Arrives(p)
    /\ \E payload \in SignupPayloads, professionalId \in Uuids, reachable \in BOOLEAN,
          variant \in SignupVariants :
         LET arrived == [req[p] EXCEPT !.kind = "proSignup", !.body = payload,
                                       !.id = professionalId]
             inserted == reachable /\ professionalId \notin DOMAIN professionals
             inserting == [arrived EXCEPT !.writes = {Table("professionals")},
                                          !.committed = inserted]
         IN  IF payload.name = "" \/ payload.phone = "" \/ Len(payload.serviceIds) = 0
             THEN /\ req' = [req EXCEPT ![p] =
                               Respond([arrived EXCEPT !.id = <<>>], 400,
                                       [message |-> "Invalid payload"])]
                  /\ UNCHANGED professionals
             ELSE IF ~inserted
             THEN /\ req' = [req EXCEPT ![p] = Catch(inserting, "insert", "Signup failed")]
                  /\ UNCHANGED professionals
             ELSE /\ professionals' =
                        WithRow(professionals, professionalId,
                                [name |-> payload.name, phone |-> payload.phone,
                                 approved |-> insertedApproved(variant)])
                  /\ req' = [req EXCEPT ![p] =
                               [inserting EXCEPT !.data = payload.serviceIds,
                                                 !.pc = "links"]]
    /\ UNCHANGED <<store, now, profServices>>

\* The INSERT of the next professional_services row; 201 after the last one.
ProSignupLink(p) ==
    /\ req[p].pc = "links"
    /\ \E reachable \in BOOLEAN :
         LET serviceId == Head(req[p].data)
             rest == Tail(req[p].data)
             inserting == [req[p] EXCEPT
                             !.writes = @ \cup {Table("professional_services")}]
         IN  IF ~reachable
             THEN /\ req' = [req EXCEPT ![p] = Catch(inserting, "insert", "Signup failed")]
                  /\ UNCHANGED profServices
             ELSE /\ profServices' = profServices \cup {<<req[p].id, serviceId>>}
                  /\ req' = [req EXCEPT ![p] =
                               IF rest = <<>>
                               THEN Respond(inserting, 201, [message |-> "Signup successful"])
                               ELSE [inserting EXCEPT !.data = rest]]
    /\ UNCHANGED <<store, now, professionals>>

\* Faulty variant: the flag is flipped.
approveRow_Toggle(table, id) ==
    IF id \in DOMAIN table
    THEN [table EXCEPT ![id] = [@ EXCEPT !.approved = ~@]]
    ELSE table

\* UPDATE professionals SET approved = true WHERE id = $1
approveRow(table, id) ==
    IF id \in DOMAIN table
    THEN [table EXCEPT ![id] = [@ EXCEPT !.approved = TRUE]]
    ELSE table

\* PUT /api/admin/approve/:id
Approve(p) ==
    \E hdr \in Headers :
        IF authMiddleware(hdr) # 0
        THEN Reject(p, "approve", hdr, authMiddleware(hdr))
        ELSE
          /\ Arrives(p)
          /\ \E id \in Uuids, reachable \in BOOLEAN :
               LET arrived == [req[p] EXCEPT
                                 !.kind = "approve", !.hdr = hdr, !.id = id,
                                 !.writes = {Table("professionals")},
                                 !.committed = reachable /\ id \in DOMAIN professionals]
               IN  IF ~reachable
                   THEN /\ req' = [req EXCEPT ![p] =
                                     Catch(arrived, "update", "Approval failed")]
                        /\ UNCHANGED professionals
                   ELSE IF id \notin DOMAIN professionals
                   THEN /\ req' = [req EXCEPT ![p] =
                                     Respond(arrived, 404, [message |-> "Not found"])]
                        /\ UNCHANGED professionals
                   ELSE /\ professionals' = approveRow(professionals, id)
                        /\ req' = [req EXCEPT ![p] =
                                     Respond(arrived, 200,
                                             [professional |-> professionals'[id]])]
          /\ UNCHANGED <<store, now, profServices>>

\* Faulty variant: the join without the condition on approved.
joinedRows_All(approved) ==
    {[id |-> link[1], serviceId |-> link[2]] : link \in
        {l \in profServices : l[1] \in DOMAIN professionals}}

\* The rows of the join of professionals and professional_services with the
\* given approved flag, as a set of [id, serviceId].
joinedRows(approved) ==
    {[id |-> link[1], serviceId |-> link[2]] : link \in
        {l \in profServices : l[1] \in DOMAIN professionals
                              /\ professionals[l[1]].approved = approved}}

\* GET /api/admin/pending
Pending(p) ==
    \E hdr \in Headers :
        IF authMiddleware(hdr) # 0
        THEN Reject(p, "pending", hdr, authMiddleware(hdr))
        ELSE
          /\ Arrives(p)
          /\ \E reachable \in BOOLEAN :
               LET arrived == [req[p] EXCEPT
                                 !.kind = "pending", !.hdr = hdr,
                                 !.reads = {Table("professionals"),
                                            Table("professional_services")}]
               IN  req' = [req EXCEPT ![p] =
                             IF ~reachable
                             THEN Catch(arrived, "select", "Failed to load pending approvals")
                             ELSE Respond(arrived, 200, [pending |-> joinedRows(FALSE)])]
          /\ UNCHANGED <<store, now, professionals, profServices>>

\* The ids of the services table the model draws from.
ServiceIds == {1, 2}

\* A listing of the relational server that needs no token.
ProListing(p, kind, serviceId, rows) ==
    /\ Arrives(p)
    /\ \E reachable \in BOOLEAN :
         LET arrived == [req[p] EXCEPT
                           !.kind = kind, !.idx = serviceId,
                           !.reads = {Table("professionals"),
                                      Table("professional_services")}]
         IN  req' = [req EXCEPT ![p] =
                       IF ~reachable
                       THEN Catch(arrived, "select", "Fetch failed")
                       ELSE [Respond(arrived, 200, [professionals |-> rows])
                                EXCEPT !.idx = serviceId]]
    /\ UNCHANGED <<store, now, professionals, profServices>>

\* GET /api/professionals/all
ProAll(p) == ProListing(p, "proAll", 0, joinedRows(TRUE))

\* GET /api/professionals/:serviceId
ProByService(p) ==
    \E serviceId \in ServiceIds :
        ProListing(p, "proByService", serviceId,
                   {[id |-> row.id] : row \in
                       {r \in joinedRows(TRUE) : r.serviceId = serviceId}})

-----------------------------------------------------------------------------
(* The chat booking widget (src/index.js, app.chat) *)

\* Time is counted in ticks of 100 ms.
TicksOf(ms) == ms \div 100

\* addMessage runs onComplete at the end of its animation (duration: 0.4).
AnimationMs == 400

EmptyDetails ==
    [name |-> "", phone |-> "", service |-> "", location |-> "", time |-> "",
     preferredWorker |-> "null"]

\* The widget as the object literal defines it, before init().  disabled is
\* elements.input.disabled, options the buttons in elements.optionsArea,
\* shown the display of inputArea and optionsArea, timers the callbacks handed
\* to setTimeout with the ticks left to each, logged the bookings handed to
\* app.logToSheet, opens the number of calls of openWithService, answer the
\* value of the last answer handleReply was called with.
ChatIdle ==
    [state |-> "initial", bookingDetails |-> EmptyDetails, disabled |-> FALSE,
     options |-> "none", shown |-> TRUE, timers |-> {}, logged |-> <<>>, opens |-> 0,
     answer |-> ""]

\* setTimeout(callback, delay)
setTimeout(c, callback, delay) ==
    [c EXCEPT !.timers = @ \cup {[cb |-> callback, left |-> TicksOf(delay)]}]

\* showTypingAndReply(replyText, delay, onComplete): onComplete runs when the
\* animation of the reply, started after delay, is over.
showTypingAndReply(c, delay, onComplete) == setTimeout(c, onComplete, delay + AnimationMs)

showServiceOptions(c) == [c EXCEPT !.disabled = TRUE, !.options = "service"]

showConfirmationOptions(c) == [c EXCEPT !.disabled = TRUE, !.options = "confirm"]

startChat(c) ==
    showTypingAndReply(
        [c EXCEPT !.state = "initial", !.bookingDetails = EmptyDetails,
                  !.disabled = TRUE, !.options = "none"],
        500, "welcome")

openWithService(c, serviceName, workerName) ==
    showTypingAndReply(
        [c EXCEPT !.state = "awaiting_name",
                  !.bookingDetails = [EmptyDetails EXCEPT !.service = serviceName,
                                                          !.preferredWorker = workerName],
                  !.disabled = TRUE, !.options = "none", !.opens = @ + 1],
        1500, "enableInput")

confirmBooking(c) ==
    setTimeout([c EXCEPT !.shown = FALSE, !.logged = Append(@, c.bookingDetails)],
               "restoreAndStart", 5000)

\* Faulty variant: every answer confirms.
confirmationReply_Any(d, value) == confirmBooking(d)

\* case 'awaiting_confirmation' of handleReply
confirmationReply(d, value) ==
    IF value = "yes"
    THEN confirmBooking(d)
    ELSE showTypingAndReply(d, 1000, "restart")

handleReply(c, value, text) ==
    LET d == [c EXCEPT !.disabled = TRUE, !.answer = value]
    IN  CASE c.state = "awaiting_service" ->
               showTypingAndReply([d EXCEPT !.bookingDetails.service = text,
                                            !.state = "awaiting_name"],
                                  1500, "enableInput")
          [] c.state = "awaiting_name" ->
               showTypingAndReply([d EXCEPT !.bookingDetails.name = value,
                                            !.state = "awaiting_phone"],
                                  1500, "enableInput")
          [] c.state = "awaiting_phone" ->
               showTypingAndReply([d EXCEPT !.bookingDetails.phone = value,
                                            !.state = "awaiting_location"],
                                  1500, "enableInput")
          [] c.state = "awaiting_location" ->
               showTypingAndReply([d EXCEPT !.bookingDetails.location = value,
                                            !.state = "awaiting_time"],
                                  1500, "enableInput")
          [] c.state = "awaiting_time" ->
               showTypingAndReply([d EXCEPT !.bookingDetails.time = value,
                                            !.state = "awaiting_confirmation"],
                                  2000, "showConfirm")
          [] c.state = "awaiting_confirmation" -> confirmationReply(d, value)
          [] OTHER -> showTypingAndReply(d, 1500, "reAsk")

handleSubmit(c, userInput) == handleReply(c, userInput, userInput)

handleOptionClick(c, value, text) == handleReply([c EXCEPT !.options = "none"], value, text)

reAskCurrentQuestion(c) ==
    LET d == [c EXCEPT !.disabled = TRUE]
    IN  IF c.state = "awaiting_service" THEN showTypingAndReply(d, 1000, "showService")
        ELSE IF c.state = "awaiting_name" THEN showTypingAndReply(d, 1000, "enableInput")
        ELSE d

\* The callbacks the widget hands to setTimeout, by the name the model gives them.
RunCallback(c, cb) ==
    CASE cb = "welcome" -> showTypingAndReply(c, 1200, "askService")
      [] cb = "askService" -> [showServiceOptions(c) EXCEPT !.state = "awaiting_service"]
      [] cb = "enableInput" -> [c EXCEPT !.disabled = FALSE]
      [] cb = "showConfirm" -> showConfirmationOptions(c)
      [] cb = "restart" -> startChat(c)
      [] cb = "reAsk" -> reAskCurrentQuestion(c)
      [] cb = "showService" -> showServiceOptions(c)
      [] cb = "restoreAndStart" -> startChat([c EXCEPT !.shown = TRUE])

\* What the user types, and the buttons of the two sets of options as
\* <<value, text>>.
Texts == {"yes"}

ServiceOptions == {<<"AC Repair", "AC Repair">>}

ConfirmationOptions == {<<"yes", "Yes, confirm booking">>, <<"no", "No, cancel">>}

\* The arguments the page calls openWithService with.
PreselectedServices == {"Electrician"}

PreselectedWorkers == {"Ravi"}

\* The user submits the form: the input is enabled and holds text.
HandleSubmit ==
    /\ ~chat.disabled /\ chat.shown
    /\ \E userInput \in Texts :
         /\ chat' = handleSubmit(chat, userInput)
         /\ Len(chat'.logged) <= MaxBookings
    /\ UNCHANGED serverVars

\* The user clicks one of the buttons the options area shows.
HandleOptionClick ==
    /\ chat.options # "none" /\ chat.shown
    /\ \E option \in (IF chat.options = "service" THEN ServiceOptions
                       ELSE ConfirmationOptions) :
         /\ chat' = handleOptionClick(chat, option[1], option[2])
         /\ Len(chat'.logged) <= MaxBookings
    /\ UNCHANGED serverVars

\* The user clicks a service or a worker of the page.
OpenWithService ==
    /\ chat.opens < MaxOpens
    /\ \E serviceName \in PreselectedServices, workerName \in PreselectedWorkers :
         chat' = openWithService(chat, serviceName, workerName)
    /\ UNCHANGED serverVars

\* 100 ms pass: no callback is due.
ChatTick ==
    /\ chat.timers # {}
    /\ \A t \in chat.timers : t.left > 0
    /\ chat' = [chat EXCEPT !.timers = {[t EXCEPT !.left = @ - 1] : t \in @}]
    /\ UNCHANGED serverVars

\* A callback that is due runs.
ChatFire ==
    /\ \E t \in chat.timers :
         /\ t.left = 0
         /\ chat' = RunCallback([chat EXCEPT !.timers = @ \ {t}], t.cb)
    /\ UNCHANGED serverVars

-----------------------------------------------------------------------------
(* The system *)

EmptyStore == [path \in Paths |-> NoDoc]

\* A store and tables that earlier runs of the servers have left: one record
\* in chats, signups and workers, one professional waiting for approval.
SeededStore ==
    LET code == CHOOSE c \in NanoidOutputs : c[1] = "7"
        body == [customerName |-> "Asha", service |-> "AC Repair"]
    IN  [path \in Paths |->
            IF path \in {DataPath("chats"), DataPath("signups"), DataPath("workers")}
            THEN Doc(<<NewRecord(path[2], code, body, 0)>>)
            ELSE NoDoc]

SeededProfessionals ==
    WithRow(EmptyObject, "u1", [name |-> "Ravi", phone |-> "9990001111", approved |-> FALSE])

Init ==
    /\ \E seeded \in BOOLEAN :
         /\ store = IF seeded THEN SeededStore ELSE EmptyStore
         /\ professionals = IF seeded THEN SeededProfessionals ELSE EmptyObject
         /\ profServices = IF seeded THEN {<<"u1", 1>>} ELSE {}
    /\ now = 0
    /\ req = [p \in Reqs |-> IdleReq]
    /\ chat = ChatIdle

ServerNext ==
    \E p \in Reqs :
        \/ PostChats(p)
        \/ PostCalls(p)
        \/ PostSignups(p)
        \/ PostWorkers(p)
        \/ AppendWrite(p)
        \/ UpdateStatus(p)
        \/ UpdateWrite(p)
        \/ Backup(p)
        \/ BackupWrite(p)
        \/ GetWorkers(p)
        \/ AdminData(p)
        \/ Stats(p)
        \/ FanOutNext(p)
        \/ ProSignup(p)
        \/ ProSignupLink(p)
        \/ Approve(p)
        \/ Pending(p)
        \/ ProAll(p)
        \/ ProByService(p)

Next == ServerNext /\ UNCHANGED chat

Spec == Init /\ [][Next]_vars

\* The widget after init(), the servers idle.
ChatInit ==
    /\ store = EmptyStore
    /\ now = 0
    /\ professionals = EmptyObject
    /\ profServices = {}
    /\ req = [p \in Reqs |-> IdleReq]
    /\ chat = startChat(ChatIdle)

ChatNext ==
    \/ HandleSubmit
    \/ HandleOptionClick
    \/ OpenWithService
    \/ ChatTick
    \/ ChatFire

ChatSpec == ChatInit /\ [][ChatNext]_vars

\* Time passes and the callbacks that are due run; the user need not act.
ChatLive == ChatSpec /\ WF_vars(ChatTick) /\ WF_vars(ChatFire)

-----------------------------------------------------------------------------
(* Properties *)

Done(p) == req[p].pc = "done"

Succeeded(p) == Done(p) /\ req[p].status \in {200, 201}

\* The request sent its write and the store answered 409.
Conflicted(p) ==
    Done(p) /\ req[p].threwAt = "write" /\ req[p].resp.error = "409"

\* The records of the snapshot a request read, from the sha it holds.
SnapshotOf(sha) == IF sha = Null THEN <<>> ELSE sha[1]

\* Two records that differ at most in the fields update-status sets.
SameButStatus(a, b) ==
    /\ DOMAIN a \ {"status", "workerAssigned"} = DOMAIN b \ {"status", "workerAssigned"}
    /\ \A k \in DOMAIN a \ {"status", "workerAssigned"} : a[k] = b[k]

\* The record a request returned is listed in its collection.
Listed(p) ==
    \E i \in 1..Len(store[req[p].path].records) :
        SameButStatus(store[req[p].path].records[i], req[p].resp)

AppendedTo(p, kinds) == req[p].kind \in kinds /\ req[p].status = 201

\* C1: two appends to one collection that read the same snapshot both end in
\* success (the rejected one by retrying from the read) and the final listing
\* holds both records.
C1_BothAppendsSucceed ==
    \A p, q \in Reqs :
        (/\ p # q
         /\ req[p].kind \in AppendKinds /\ req[q].kind = req[p].kind
         /\ Succeeded(p) \/ Conflicted(p)
         /\ Succeeded(q) \/ Conflicted(q)
         /\ req[p].sha = req[q].sha)
        => /\ Succeeded(p) /\ Succeeded(q)
           /\ Listed(p) /\ Listed(q)

\* C2 (state part): the record of every append answered 201 is in every later
\* snapshot of its collection.
C2_AckedListed ==
    \A p \in Reqs : AppendedTo(p, AppendKinds) => Listed(p)

\* C2 (step part): a write whose sha is not the sha of the document the store
\* holds is answered with a failure and changes nothing.
C2_StaleRejected ==
    \A p \in Reqs :
        (/\ req[p].pc = "put"
         /\ req'[p].pc = "done"
         /\ req[p].sha # ShaOf(store[req[p].path]))
        => /\ store' = store
           /\ req'[p].status = 500

\* C2: under every interleaving of appends and status updates, a stale write is
\* rejected and changes nothing, and no acknowledged append is overwritten.
C2_NoLostUpdate == []C2_AckedListed /\ [][C2_StaleRejected]_vars

\* A stale write was rejected while another request's acknowledged record stays listed.
C2_Witness ==
    \E p, q \in Reqs :
        /\ p # q
        /\ AppendedTo(p, AppendKinds) /\ Listed(p)
        /\ req[q].kind \in AppendKinds \cup {"update"}
        /\ req[q].path = req[p].path
        /\ Conflicted(q)

\* The routes that assign an id, and the prefix of each.
IdKinds == {"chats", "signups", "workers"}

PrefixOf(kind) ==
    CASE kind = "chats" -> CHAT
      [] kind = "signups" -> SIGNUP
      [] kind = "workers" -> WORKER

\* The fields an append route sets after the spread of the request body.
RouteFixed(kind) ==
    CASE kind = "chats" -> {"timestamp", "status", "workerAssigned"}
      [] kind = "signups" -> {"timestamp", "status"}
      [] kind = "workers" -> {"timestamp"}

NoMatch(records, id) ==
    \A i \in 1..Len(records) : ~(Has(records[i], "id") /\ records[i].id = id)

\* An update-status request that got past the middleware and the prefix check
\* and whose read was answered.
UpdateRead(p) ==
    /\ req[p].kind = "update"
    /\ req[p].reads # {}
    /\ req[p].got \in {"200", "404"}

\* C4: an update-status whose id has a valid prefix and matches no record of
\* the collection it read answers 404 and sends no write.
C4_NotFound ==
    \A p \in Reqs :
        (UpdateRead(p) /\ Done(p) /\ NoMatch(SnapshotOf(req[p].sha), req[p].id))
        => /\ req[p].status = 404
           /\ req[p].writes = {}
           /\ ~req[p].committed

\* A 404 on a collection that holds records.
C4_Witness ==
    \E p \in Reqs :
        /\ UpdateRead(p) /\ req[p].status = 404
        /\ SnapshotOf(req[p].sha) # <<>>
        /\ store[req[p].path].records = SnapshotOf(req[p].sha)

\* The kinds of request whose read is a read of req.path.
ReadsOwnPath == AppendKinds \cup {"update", "getWorkers"}

\* C5 (step): a read of a document that does not exist gives the empty
\* sequence and the Null sha without an error, and the write of an append that
\* finds no document creates it with exactly the returned record.
C5_Step ==
    \A p \in Reqs :
        /\ (/\ req[p].pc = "idle"
            /\ req'[p].kind \in ReadsOwnPath
            /\ req'[p].reads # {}
            /\ ~store[req'[p].path].exists
            /\ req'[p].got # "error")
           => /\ req'[p].threwAt = "none"
              /\ req'[p].sha = Null
              /\ req'[p].pc = "put" => req'[p].data = <<>>
        /\ (/\ req[p].pc = "put"
            /\ req'[p].pc = "done"
            /\ req[p].kind \in AppendKinds
            /\ ~store[req[p].path].exists)
           => \/ req'[p].status = 500 /\ req'[p].resp.error = "error" /\ store' = store
              \/ /\ req'[p].status = 201
                 /\ store' = [store EXCEPT ![req[p].path] = Doc(<<req'[p].resp>>)]

\* C5: bootstrap of a collection that has never been written.
C5_Bootstrap == [][C5_Step]_vars

\* An append has created its collection.
C5_Witness ==
    \E p \in Reqs :
        /\ AppendedTo(p, AppendKinds)
        /\ req[p].got = "404"
        /\ store[req[p].path] = Doc(<<req[p].resp>>)

\* C6 (state): a request whose read failed otherwise than by not-found has
\* answered 500 and has sent no write.
C6_FailureSurfaced ==
    \A p \in Reqs :
        req[p].got = "error"
        => /\ Done(p)
           /\ req[p].status = 500
           /\ req[p].threwAt = "read"
           /\ req[p].writes = {}
           /\ ~req[p].committed

\* C6 (step): no applied write of an append or an update to a document that
\* holds records was computed from an empty snapshot.
C6_Step ==
    \A p \in Reqs :
        (/\ req[p].pc = "put"
         /\ req[p].kind \in AppendKinds \cup {"update"}
         /\ req'[p].committed
         /\ store[req[p].path].records # <<>>)
        => req[p].data # <<>>

\* C6: a failed read is an error of the request, never an empty collection.
C6_NoEmptyOnFailure == []C6_FailureSurfaced /\ [][C6_Step]_vars

\* The read of a collection that holds records has failed.
C6_Witness ==
    \E p \in Reqs :
        /\ req[p].kind \in AppendKinds \cup {"update", "backup"}
        /\ req[p].got = "error"
        /\ \E path \in req[p].reads : store[path].records # <<>>

\* C7 (step): an append or update-status answers with success only in the step
\* in which the store applies its write, and returns the record the document
\* then holds; every other answer leaves the store as it was.
C7_Step ==
    \A p \in Reqs :
        (/\ req[p].pc # "done"
         /\ req'[p].pc = "done"
         /\ req'[p].kind \in AppendKinds \cup {"update"})
        => IF req'[p].status \in {200, 201}
           THEN /\ req[p].pc = "put"
                /\ req[p].sha = ShaOf(store[req[p].path])
                /\ store' = [store EXCEPT ![req[p].path] = Doc(req[p].newData)]
                /\ req'[p].resp = store'[req[p].path].records[req[p].idx]
           ELSE /\ store' = store
                /\ req'[p].status \in {400, 401, 404, 500}

C8_PatchApplied ==
    \A p \in Reqs :
        (req[p].kind = "update" /\ req[p].status = 200)
        => LET snapshot == SnapshotOf(req[p].sha)
               old == snapshot[CHOOSE i \in 1..Len(snapshot) :
                                 /\ Has(snapshot[i], "id") /\ snapshot[i].id = req[p].id
                                 /\ NoMatch(SubSeq(snapshot, 1, i - 1), req[p].id)]
           IN  /\ \A k \in DOMAIN req[p].body :
                    Has(req[p].resp, k) /\ req[p].resp[k] = req[p].body[k]
               /\ \A k \in DOMAIN old \ DOMAIN req[p].body :
                    Has(req[p].resp, k) /\ req[p].resp[k] = old[k]

AdminKinds == {"workers", "update", "backup", "adminData", "stats", "approve", "pending"}

\* C9: an admin request whose token is missing or is not the admin token is
\* answered 401 or 403 and has sent no read and no write.
C9_Unauthorized ==
    \A p \in Reqs :
        (req[p].kind \in AdminKinds /\ TokenOf(req[p].hdr) # ADMIN_TOKEN)
        => /\ Done(p)
           /\ req[p].status \in {401, 403}
           /\ req[p].reads = {}
           /\ req[p].writes = {}
           /\ ~req[p].committed

\* An update-status with a wrong token was rejected while the record it names
\* exists, and an approve without a token while a professional waits.
C9_Witness ==
    \E p, q \in Reqs :
        /\ req[p].kind = "update" /\ req[p].status = 401
        /\ TokenOf(req[p].hdr) = "wrong"
        /\ store[DataPath("chats")].records # <<>>
        /\ req[q].kind = "approve" /\ req[q].status = 401
        /\ \E id \in DOMAIN professionals : ~professionals[id].approved

\* C10: update-status reads and writes only chats for a CHAT- id, only signups
\* for a SIGNUP- id, and answers 400 without a read or a write for any other id.
C10_Dispatch ==
    \A p \in Reqs :
        (req[p].kind = "update" /\ req[p].pc # "idle" /\ req[p].status # 401)
        => IF startsWith(req[p].id, CHAT \o <<"-">>)
           THEN /\ req[p].reads = {DataPath("chats")}
                /\ req[p].writes \subseteq {DataPath("chats")}
           ELSE IF startsWith(req[p].id, SIGNUP \o <<"-">>)
           THEN /\ req[p].reads = {DataPath("signups")}
                /\ req[p].writes \subseteq {DataPath("signups")}
           ELSE /\ Done(p) /\ req[p].status = 400
                /\ req[p].reads = {} /\ req[p].writes = {}

\* One update has written chats, another was answered 400.
C10_Witness ==
    \E p, q \in Reqs :
        /\ req[p].kind = "update" /\ req[p].writes = {DataPath("chats")} /\ req[p].committed
        /\ req[q].kind = "update" /\ req[q].status = 400

\* The last record of a document.
Last(records) == records[Len(records)]

\* C11 (step): the record a chats or signups append commits is the record it
\* answers with; it has the status of its route ("Pending" with workerAssigned
\* "" for chats, "Pending Review" for signups) and the instant the handler took
\* from the clock before the write, whatever the body holds.
C11_Step ==
    \A p \in Reqs :
        (/\ req[p].pc = "put"
         /\ req[p].kind \in {"chats", "signups"}
         /\ req'[p].committed)
        => LET rec == Last(store'[req[p].path].records)
           IN  /\ rec = req'[p].resp
               /\ rec.timestamp = req[p].stamp
               /\ rec.timestamp <= now'
               /\ IF req[p].kind = "chats"
                  THEN rec.status = "Pending" /\ rec.workerAssigned = ""
                  ELSE rec.status = "Pending Review"

\* C11: chats and signups records are committed with the fields of their route.
C11_RouteFields == [][C11_Step]_vars

\* A chats and a signups append whose bodies carry status, workerAssigned and
\* timestamp have both committed.
C11_Witness ==
    \E p, q \in Reqs :
        /\ AppendedTo(p, {"chats"}) /\ Has(req[p].body, "status")
        /\ Has(req[p].body, "workerAssigned") /\ Has(req[p].body, "timestamp")
        /\ AppendedTo(q, {"signups"}) /\ Has(req[q].body, "status")

\* C12 (step): every record a document holds is in the document after the
\* step, with the same id and the same fields but those update-status sets;
\* no document loses records or ceases to exist.
C12_Step ==
    \A path \in Paths :
        LET old == store[path].records
            new == store'[path].records
        IN  /\ store[path].exists => store'[path].exists
            /\ Len(new) >= Len(old)
            /\ \A i \in 1..Len(old) :
                 \E j \in 1..Len(new) : SameButStatus(new[j], old[i])

\* C12: over appends, status updates, backups and reads no record is removed.
C12_NeverRemoved == [][C12_Step]_vars

\* A collection that held a record has taken a status update and an append.
C12_Witness ==
    \E p, q \in Reqs :
        /\ req[p].kind = "update" /\ req[p].committed
        /\ AppendedTo(q, AppendKinds) /\ req[q].path = req[p].path
        /\ Len(store[req[p].path].records) = 2

\* C13 (step): the write of an update-status that the store applies leaves the
\* length of the collection, and every record but the first one with the id,
\* as they were; of that record it changes at most status and workerAssigned.
C13_Step ==
    \A p \in Reqs :
        (/\ req[p].pc = "put"
         /\ req[p].kind = "update"
         /\ req'[p].committed)
        => LET old == store[req[p].path].records
               new == store'[req[p].path].records
               hits == {i \in 1..Len(old) : Has(old[i], "id") /\ old[i].id = req[p].id}
               first == CHOOSE i \in hits : \A j \in hits : i <= j
           IN  /\ hits # {}
               /\ Len(new) = Len(old)
               /\ \A j \in 1..Len(old) : j # first => new[j] = old[j]
               /\ SameButStatus(new[first], old[first])
               /\ new[first].id = old[first].id
               /\ new[first].timestamp = old[first].timestamp
               /\ \A path \in Paths \ {req[p].path} : store'[path] = store[path]

\* C13: a successful update-status changes status and workerAssigned of one
\* record and nothing else.
C13_UpdateFrame == [][C13_Step]_vars

\* An update-status has changed the status of one record of a collection of two.
C13_Witness ==
    \E p \in Reqs :
        /\ req[p].kind = "update" /\ req[p].status = 200
        /\ Len(SnapshotOf(req[p].sha)) = 2
        /\ req[p].resp.status = "Confirmed"
        /\ store[req[p].path].records # SnapshotOf(req[p].sha)

\* C14 (step): every record keeps its position in its document, and the write
\* of an append that the store applies puts the new record after all the
\* records the document held.
C14_Step ==
    /\ \A path \in Paths :
         LET old == store[path].records
             new == store'[path].records
         IN  /\ Len(new) >= Len(old)
             /\ \A i \in 1..Len(old) : SameButStatus(new[i], old[i])
    /\ \A p \in Reqs :
         (/\ req[p].pc = "put"
          /\ req[p].kind \in AppendKinds
          /\ req'[p].committed)
         => store'[req[p].path].records =
                Append(store[req[p].path].records, req'[p].resp)

\* C14: the records of a collection are in insertion order.
C14_InsertionOrder == [][C14_Step]_vars

\* An append has put its record after the record the collection held.
C14_Witness ==
    \E p \in Reqs :
        /\ AppendedTo(p, AppendKinds)
        /\ Len(SnapshotOf(req[p].sha)) = 1
        /\ store[req[p].path].records = Append(SnapshotOf(req[p].sha), req[p].resp)
        /\ req[p].resp # SnapshotOf(req[p].sha)[1]

\* The collection a request works on, "none" for a request that works on no
\* single collection.
CollectionOf(r) ==
    IF r.kind \in AppendKinds THEN r.kind
    ELSE IF r.kind = "update" /\ startsWith(r.id, CHAT \o <<"-">>) THEN "chats"
    ELSE IF r.kind = "update" /\ startsWith(r.id, SIGNUP \o <<"-">>) THEN "signups"
    ELSE "none"

\* C15 (state): the write of an append is rejected as stale only when another
\* request has committed a write to the same collection.
C15_NoCrossConflict ==
    \A p \in Reqs :
        (req[p].kind \in AppendKinds /\ Conflicted(p))
        => \E q \in Reqs \ {p} :
             req[q].committed /\ CollectionOf(req[q]) = req[p].kind

\* C15 (step): the step of a request leaves the document, and so the sha, of
\* every collection but its own unchanged.
C15_Step ==
    \A c \in Collections :
        store'[DataPath(c)] # store[DataPath(c)]
        => \E p \in Reqs :
             /\ req[p].pc = "put" /\ req'[p].pc = "done"
             /\ CollectionOf(req[p]) = c

\* C15: operations on different collections are independent.
C15_Independent == []C15_NoCrossConflict /\ [][C15_Step]_vars

\* A chats append and a signups append have both committed.
C15_Witness ==
    \E p, q \in Reqs :
        /\ AppendedTo(p, {"chats"}) /\ req[p].committed
        /\ AppendedTo(q, {"signups"}) /\ req[q].committed
        /\ Last(store[DataPath("chats")].records) = req[p].resp
        /\ Last(store[DataPath("signups")].records) = req[q].resp

\* The routes that list a collection and write nothing.
ListKinds == {"getWorkers", "adminData", "stats"}

\* No request has committed a write to the collection.
Unwritten(c) ==
    \A r \in Reqs : req[r].committed => req[r].path # DataPath(c)

\* C16 (state): two listings of a collection that no request has written
\* return the same sequence, the records of the document in their order.
C16_SameSequence ==
    \A p, q \in Reqs :
        \A c \in Collections :
            (/\ req[p].kind = "adminData" /\ req[p].status = 200
             /\ req[q].kind = "adminData" /\ req[q].status = 200
             /\ Unwritten(c))
            => /\ req[p].resp[c] = req[q].resp[c]
               /\ req[p].resp[c] = store[DataPath(c)].records

\* C16 (step): the step of a listing request changes no document and no sha.
C16_Step ==
    \A p \in Reqs :
        (/\ req'[p].kind \in ListKinds
         /\ req'[p].pc # req[p].pc \/ req'[p].reads # req[p].reads)
        => /\ store' = store
           /\ \A path \in Paths : ShaOf(store'[path]) = ShaOf(store[path])

\* C16: reads are idempotent.
C16_IdempotentRead == []C16_SameSequence /\ [][C16_Step]_vars

\* Two listings of the collections have been answered, chats holding a record.
C16_Witness ==
    \E p, q \in Reqs :
        /\ p # q
        /\ req[p].kind = "adminData" /\ req[p].status = 200
        /\ req[q].kind = "adminData" /\ req[q].status = 200
        /\ req[p].resp.chats # <<>>
        /\ req[p].resp = req[q].resp

\* C17 (state): a handler that is about to send its write has sent none.
C17_NoWriteYet ==
    \A p \in Reqs :
        (req[p].pc = "put" /\ req[p].kind \in AppendKinds) => req[p].writes = {}

\* C17 (step): the write of an append is the end of the request, whatever the
\* store answers; a request that has answered sends nothing more; and the
\* write that is applied adds one record to the collection.
C17_Step ==
    \A p \in Reqs :
        /\ (/\ req[p].kind \in AppendKinds
            /\ req[p].pc = "put"
            /\ req'[p].writes # req[p].writes \/ req'[p].pc # req[p].pc)
           => /\ req'[p].pc = "done"
              /\ req'[p].writes = {req[p].path}
              /\ Len(store'[req[p].path].records) =
                     Len(store[req[p].path].records) + (IF req'[p].committed THEN 1 ELSE 0)
        /\ (req[p].kind \in AppendKinds /\ req[p].pc = "done")
           => /\ req'[p].pc = "done"
              /\ req'[p].writes = req[p].writes
              /\ req'[p].committed = req[p].committed

\* C17: an append sends at most one write and commits at most one record.
C17_SingleWrite == []C17_NoWriteYet /\ [][C17_Step]_vars

\* The write of an append got no answer from the store and the request has
\* ended in failure, the collection as it was.
C17_Witness ==
    \E p \in Reqs :
        /\ req[p].kind \in AppendKinds
        /\ Done(p) /\ req[p].status = 500
        /\ req[p].threwAt = "write" /\ req[p].resp.error = "error"
        /\ req[p].writes = {req[p].path}
        /\ store[req[p].path].records = SnapshotOf(req[p].sha)
        /\ SnapshotOf(req[p].sha) # <<>>

\* C18 (step): an authorised backup whose read is answered takes the chats
\* records as they are and prepares a write without a sha to the path of the
\* day; that write creates the document with those records when the path holds
\* none, and is answered with a failure, the document as it was, when the path
\* holds one; neither step changes the chats collection.
C18_Step ==
    \A p \in Reqs :
        /\ (/\ req[p].pc = "idle"
            /\ req'[p].kind = "backup"
            /\ req'[p].got \in {"200", "404"})
           => /\ req'[p].pc = "put"
              /\ req'[p].data = store[DataPath("chats")].records
              /\ req'[p].newData = req'[p].data
              /\ req'[p].sha = Null
              /\ req'[p].path = BackupPath(req'[p].stamp)
              /\ store' = store
        /\ (/\ req[p].pc = "put"
            /\ req[p].kind = "backup"
            /\ req'[p].pc = "done")
           => /\ store'[DataPath("chats")] = store[DataPath("chats")]
              /\ IF store[req[p].path].exists
                 THEN store' = store /\ req'[p].status = 500
                 ELSE \/ store' = store /\ req'[p].status = 500
                      \/ /\ req'[p].status = 200
                         /\ store' = [store EXCEPT ![req[p].path] = Doc(req[p].data)]

\* C18: a backup copies chats to the dated path and never overwrites a backup.
C18_Backup == [][C18_Step]_vars

\* A backup of the day exists with the chats records, and a second backup of
\* the same day was answered with a failure.
C18_Witness ==
    \E p, q \in Reqs :
        /\ req[p].kind = "backup" /\ req[p].status = 200 /\ req[p].committed
        /\ req[q].kind = "backup" /\ req[q].status = 500 /\ req[q].threwAt = "write"
        /\ req[q].resp.error = "409"
        /\ req[q].path = req[p].path
        /\ store[req[p].path] = Doc(store[DataPath("chats")].records)
        /\ store[DataPath("chats")].records # <<>>

FanOutKinds == {"adminData", "stats"}

\* What a fan-out route returns of a sequence of records: the sequence for
\* admin/data, its length for stats.
ViewOf(kind, records) == IF kind = "adminData" THEN <<records>> ELSE <<Len(records)>>

\* C19 (state): a fan-out request sends no write, and one that has answered
\* with an error has returned no collection.
C19_NoPartial ==
    \A p \in Reqs :
        req[p].kind \in FanOutKinds
        => /\ req[p].writes = {} /\ ~req[p].committed
           /\ req[p].got = "error" => Done(p) /\ req[p].status = 500
           /\ (Done(p) /\ req[p].status # 200) => DOMAIN req[p].resp \cap Collections = {}

\* C19 (step): every read of a fan-out request takes the records the
\* collection holds at that step and keeps what the earlier reads took; the
\* last read answers 200 with, for each collection, what its read took.
C19_Step ==
    \A p \in Reqs :
        (/\ req'[p].kind \in FanOutKinds
         /\ req'[p].reads # req[p].reads
         /\ req'[p].got # "error")
        => LET taken == req[p].data
               c == FanOut[Len(taken) + 1]
               current == store[DataPath(c)].records
           IN  /\ store' = store
               /\ req'[p].reads = req[p].reads \cup {DataPath(c)}
               /\ IF Len(taken) + 1 < Len(FanOut)
                  THEN /\ req'[p].pc = "fanout"
                       /\ req'[p].data = Append(taken, current)
                  ELSE /\ req'[p].pc = "done" /\ req'[p].status = 200
                       /\ DOMAIN req'[p].resp = Collections
                       /\ <<req'[p].resp[c]>> = ViewOf(req'[p].kind, current)
                       /\ \A i \in 1..Len(taken) :
                            <<req'[p].resp[FanOut[i]]>> = ViewOf(req'[p].kind, taken[i])

\* C19: stats and admin/data return a snapshot of each collection or an error.
C19_FanOut == []C19_NoPartial /\ [][C19_Step]_vars

\* A stats request has counted the collections, and an admin/data request has
\* failed at a later read than its first.
C19_Witness ==
    \E p, q \in Reqs :
        /\ req[p].kind = "stats" /\ req[p].status = 200
        /\ req[p].resp.chats = 1 /\ req[p].resp.calls = 0
        /\ req[q].kind = "adminData" /\ req[q].status = 500
        /\ req[q].got = "error" /\ Cardinality(req[q].reads) >= 2

\* The rows a signup request has inserted: its professional row and its links.
OwnRow(p) == req[p].committed /\ req[p].id \in DOMAIN professionals

OwnLinks(p) == {l \in profServices : req[p].committed /\ l[1] = req[p].id}

\* C20: a professional signup with a valid payload that has answered has
\* either answered 201 with its professional row and all its links inserted,
\* or answered with a failure with no row and no link of it inserted.
C20_SignupAtomic ==
    \A p \in Reqs :
        (req[p].kind = "proSignup" /\ Done(p) /\ req[p].status # 400)
        => IF req[p].status = 201
           THEN /\ OwnRow(p)
                /\ \A i \in 1..Len(req[p].body.serviceIds) :
                     <<req[p].id, req[p].body.serviceIds[i]>> \in OwnLinks(p)
           ELSE ~OwnRow(p) /\ OwnLinks(p) = {}

\* A worker record that says the worker is not available.
Unavailable(w) == Has(w, "available") /\ w.available = FALSE

\* The key of the group of a worker.
GroupKey(w) == IF Has(w, "service") /\ w.service # "" THEN w.service ELSE "Uncategorized"

\* C21: GET /api/workers returns the available workers of the collection it
\* read and no other worker: one group for each service of an available worker
\* ("Uncategorized" for a missing or empty service), each group holding the
\* available workers of its service in their collection order.
C21_AvailableGrouped ==
    \A p \in Reqs :
        (req[p].kind = "getWorkers" /\ req[p].status = 200)
        => LET data == SnapshotOf(req[p].sha)
               shown == SelectSeq(data, LAMBDA w : ~Unavailable(w))
           IN  /\ DOMAIN req[p].resp = {GroupKey(shown[i]) : i \in 1..Len(shown)}
               /\ \A g \in DOMAIN req[p].resp :
                    req[p].resp[g] = SelectSeq(shown, LAMBDA w : GroupKey(w) = g)

\* The listings of approved professionals.
ApprovedListings == {"proAll", "proByService"}

\* An approve request for the id, with the admin token, has completed.
ApprovedBy(id) ==
    \E q \in Reqs :
        /\ req[q].kind = "approve" /\ req[q].status = 200
        /\ TokenOf(req[q].hdr) = ADMIN_TOKEN
        /\ req[q].id = id

\* C22 (state): every professional a listing of approved professionals has
\* returned is one an approve request with the admin token has approved.
C22_ListedApproved ==
    \A p \in Reqs :
        (req[p].kind \in ApprovedListings /\ req[p].status = 200)
        => \A row \in req[p].resp.professionals : ApprovedBy(row.id)

\* C22 (step): the pending list returns a professional with its services
\* exactly when it is not approved.
C22_Step ==
    \A p \in Reqs :
        (req[p].pc = "idle" /\ req'[p].kind = "pending" /\ req'[p].status = 200)
        => \A l \in profServices :
             l[1] \in DOMAIN professionals
             => ([id |-> l[1], serviceId |-> l[2]] \in req'[p].resp.pending
                    <=> ~professionals[l[1]].approved)

\* C22: a professional is listed as approved only after an approval, and is
\* in the pending list until then.
C22_ApprovalGate == []C22_ListedApproved /\ [][C22_Step]_vars

\* A professional was approved and then listed.
C22_Witness ==
    \E p \in Reqs :
        /\ req[p].kind = "proAll" /\ req[p].status = 200
        /\ req[p].resp.professionals # {}
        /\ \A row \in req[p].resp.professionals : ApprovedBy(row.id)

\* C23 (step): an approve of an id that matches no row answers 404 without a
\* change; an approve that succeeds sets the flag of its row and changes
\* nothing else, so a second approve changes nothing; and no step removes a
\* row or takes the flag back.
C23_Step ==
    /\ \A p \in Reqs :
         (/\ req[p].pc = "idle"
          /\ req'[p].kind = "approve"
          /\ req'[p].status \notin {401, 403})
         => LET id == req'[p].id
            IN  IF req'[p].status = 200
                THEN /\ id \in DOMAIN professionals
                     /\ professionals' =
                            [professionals EXCEPT ![id] = [@ EXCEPT !.approved = TRUE]]
                     /\ professionals[id].approved => professionals' = professionals
                ELSE /\ professionals' = professionals
                     /\ req'[p].status \in {404, 500}
                     /\ req'[p].status = 404 <=> id \notin DOMAIN professionals
                                                  /\ req'[p].threwAt = "none"
    /\ \A id \in DOMAIN professionals :
         /\ id \in DOMAIN professionals'
         /\ professionals[id].approved => professionals'[id].approved

\* C23: approve answers 404 for an unknown id, is idempotent and is never
\* reverted.
C23_Approve == [][C23_Step]_vars

\* The same professional was approved twice.
C23_Witness ==
    \E p, q \in Reqs :
        /\ p # q
        /\ req[p].kind = "approve" /\ req[p].status = 200
        /\ req[q].kind = "approve" /\ req[q].status = 200
        /\ req[p].id = req[q].id
        /\ professionals[req[p].id].approved

-----------------------------------------------------------------------------
(* Properties of the chat widget *)

\* The user has answered in this step.
Answered == HandleSubmit \/ HandleOptionClick

\* A booking is handed to logToSheet in this step.
Logs == chat'.logged # chat.logged

\* The states in which the widget asks for a detail, in the order of the
\* conversation, and the detail each one collects.
AskingStates ==
    <<"awaiting_service", "awaiting_name", "awaiting_phone", "awaiting_location",
      "awaiting_time", "awaiting_confirmation">>

Collects ==
    <<"service", "name", "phone", "location", "time">>

\* The widget enters the i-th asking state from the state before it, the
\* detail of that state collected.
EntersInOrder(i) ==
    (chat'.state = AskingStates[i] /\ chat.state # AskingStates[i])
    => /\ chat.state = AskingStates[i - 1]
       /\ Answered
       /\ chat'.bookingDetails[Collects[i - 1]] # ""

\* A call of openWithService in this step.
Opens == chat'.opens = chat.opens + 1

\* What C24 says of logging and of the answers at the confirmation.
LogsOnYesOnly ==
    /\ Logs => /\ chat.state = "awaiting_confirmation"
               /\ Answered /\ chat'.answer = "yes"
               /\ chat'.logged = Append(chat.logged, chat.bookingDetails)
               /\ \A i \in 1..Len(Collects) : chat.bookingDetails[Collects[i]] # ""
    /\ (Answered /\ chat.state = "awaiting_confirmation" /\ chat'.answer # "yes")
       => /\ ~Logs
          /\ \E t \in chat'.timers : t.cb = "restart"
    /\ (ChatFire /\ \E t \in chat.timers : t.cb = "restart" /\ t.left = 0
                                            /\ \A u \in chat.timers : u.left = 0 => u = t)
       => chat'.state = "initial" /\ chat'.bookingDetails = EmptyDetails

\* C24, as claimed: a booking is logged only at the confirmation on "yes",
\* the five details collected one after the other through awaiting_service,
\* awaiting_name, awaiting_phone, awaiting_location and awaiting_time; another
\* answer at the confirmation logs nothing and restarts the chat.
C24_Step ==
    /\ LogsOnYesOnly
    /\ \A i \in 2..Len(AskingStates) : EntersInOrder(i)

C24_LoggedInOrder == [][C24_Step]_vars

\* C24, amended: the same, but awaiting_name is entered either from
\* awaiting_service with the service answered, or by openWithService with the
\* service it was called with, which skips awaiting_service.
C24_StepAmended ==
    /\ LogsOnYesOnly
    /\ \A i \in 3..Len(AskingStates) : EntersInOrder(i)
    /\ (chat'.state = "awaiting_name" /\ chat.state # "awaiting_name")
       => \/ /\ chat.state = "awaiting_service" /\ Answered
             /\ chat'.bookingDetails.service # ""
          \/ /\ Opens
             /\ chat'.bookingDetails.service \in PreselectedServices

C24_LoggedInOrderAmended == [][C24_StepAmended]_vars

\* A booking chosen from the service options was logged, all details given.
C24_Witness ==
    /\ Len(chat.logged) = 1
    /\ chat.logged[1].service = "AC Repair"
    /\ chat.logged[1].name # "" /\ chat.logged[1].time # ""
    /\ chat.opens = 0

\* C25: once openWithService has set the service and the worker, the widget
\* does not go back to asking for the service, the details keep the service
\* it was called with, and the booking that is logged has that service and
\* that worker.
C25_PreselectionKept ==
    /\ chat.bookingDetails.preferredWorker # "null"
       => /\ chat.state # "awaiting_service"
          /\ chat.bookingDetails.service \in PreselectedServices
    /\ \A i \in 1..Len(chat.logged) :
         chat.logged[i].preferredWorker # "null"
         => chat.logged[i].service \in PreselectedServices

\* The user can answer: the input and option areas are displayed, and the
\* input is enabled or option buttons are shown.
CanAnswer == chat.shown /\ (~chat.disabled \/ chat.options # "none")

\* A chat that has just been started and asks for the service.
FreshChat == chat.state = "awaiting_service" /\ chat.bookingDetails = EmptyDetails

\* C26 (first part): the widget is never left with the input disabled and no
\* options: a state in which the user can answer always follows.
C26_AnswerAgain == ~CanAnswer ~> CanAnswer

\* C26 (second part): a confirmed booking is followed by a fresh chat.
C26_FreshAfterBooking == (chat.logged # <<>> /\ ~chat.shown) ~> FreshChat

\* C26: after every answer the user can eventually answer again, and every
\* confirmed booking is eventually followed by a fresh chat in awaiting_service
\* with empty booking details.
C26_NeverStuck == C26_AnswerAgain /\ C26_FreshAfterBooking

====
